---- MODULE Spec2Model ----
(***************************************************************************)
(* NoTracePDF: the zero-trace request discipline.                          *)
(*                                                                         *)
(*   - app/core/cleanup.py: the resource tracker and the signal / atexit   *)
(*     shutdown path,                                                      *)
(*   - app/services/conversion_service.py and text_conversion_service.py:  *)
(*     the LibreOffice conversions and their scratch files in /tmp,        *)
(*   - app/middleware, app/api/v1, app/utils/file_utils.py: the middleware *)
(*     chain, the upload validators and the route handlers.                *)
(*                                                                         *)
(* The server is a single asyncio event loop: every route handler is an    *)
(* `async def` whose only suspension point is the read of the upload, so   *)
(* handler code, tracker calls and conversions run on the main thread one  *)
(* at a time.  A Python signal handler runs on that same thread between    *)
(* two bytecodes of whatever is executing, and _signal_handler never       *)
(* returns to it: it ends in sys.exit(0).                                  *)
(***************************************************************************)
EXTENDS Integers, Sequences, FiniteSets, TLC

VARIABLES
    phase,                  \* STARTING, RUNNING, SHUTTING_DOWN, TERMINATED
    cause,                  \* what started the shutdown: none, signal, exit
    _active_temp_resources, \* cleanup.py:19
    log,                    \* lines of the "notracepdf" logger written by cleanup.py
    frame,                  \* the cleanup_temp_files / _signal_handler call in progress
    atexit_hooks,           \* number of atexit.register(cleanup_temp_files) done
    atexit_left,            \* atexit callbacks still to run while exiting
    exiting,                \* the interpreter is finalizing (atexit callbacks run)
    exit_code,              \* -1 while the process lives
    signals,                \* signals delivered so far
    ops,                    \* tracker calls made by request code so far
    shutdown_sweeps,        \* cleanup_temp_files calls completed by handler + atexit
    last_sweep,             \* the most recent completed cleanup_temp_files call
    tmp_files,              \* scratch files present in /tmp
    conv,                   \* the conversion call in progress
    proc_running,           \* the libreoffice child process is alive
    conv_result,            \* how the last conversion request ended
    convs,                  \* conversions started so far
    request,                \* the HTTP request being answered
    response,               \* the response that leaves the middleware chain
    access_log,             \* log lines emitted while the request was handled
    transform_calls,        \* calls of the transform function made for the request
    transform_exc,          \* what the transform raised for the request
    transform_input,        \* the payloads handed to the transform for the request
    fetched,                \* the URLs url_to_pdf has requested for the request
    read_wait,              \* seconds the outbound fetch has waited for its next bytes
    prev                    \* the exchange completed before, kept for comparison

trackerVars == <<phase, cause, _active_temp_resources, log, frame, atexit_hooks,
                 atexit_left, exiting, exit_code, signals, ops, shutdown_sweeps,
                 last_sweep>>
convVars == <<tmp_files, conv, proc_running, conv_result, convs>>
httpVars == <<request, response, access_log, transform_calls, transform_exc,
              transform_input, fetched, read_wait, prev>>
vars == <<trackerVars, convVars, httpVars>>

----------------------------------------------------------------------------
(* Bounds of the model *)

MaxHandles == 2
MaxOps == 2
MaxSignals == 2
MaxRegistrations == 2
MaxConversions == 2

\* tempfile.NamedTemporaryFile(dir='/tmp', delete=False): a fresh path
InputFile(n) == <<n, "in">>

\* A resource id is an opaque string such as a scratch-file path.
Handles == {InputFile(n) : n \in 1..MaxHandles}
SignalNames == {"SIGTERM", "SIGINT"}

----------------------------------------------------------------------------
(* cleanup.py: the tracker *)

NoFrame == [fn |-> "none", caller |-> "none", pc |-> "none", before |-> {}]
\* `def cleanup_temp_files() -> None`: the function has no return statement.
\* A returned value is a tuple of the values returned: None is the empty one.
None == <<>>

NoSweep ==
    [caller |-> "none", before |-> {}, reported |-> 0, removed |-> {}, after |-> {},
     returned |-> None]

\* set.add
SetAdd(s, h) == s \cup {h}

\* set.discard: no error when h is absent
SetDiscardClears(s, h) == {}
SetDiscard(s, h) == s \ {h}

\* set.clear
SetClearDropsOne(s) == IF s = {} THEN {} ELSE s \ {CHOOSE h \in s : TRUE}
SetClear(s) == {}

\* len(_active_temp_resources), the resource_count that is logged
ResourceCountOffByOne(s) == Cardinality(s) + 1
ResourceCount(s) == Cardinality(s)

CleanupLine(n) == [event |-> "cleanup", resource_count |-> n]
SignalLine(s) == [event |-> "signal_received", signal |-> s]
RegisteredLine == [event |-> "cleanup_handlers_registered"]

\* Request code on the event loop runs only while nothing else occupies the
\* main thread and the interpreter is not exiting.
MainThreadFree == phase = "RUNNING" /\ frame.fn = "none" /\ ~exiting

register_resource(h) ==
    /\ MainThreadFree
    /\ ops < MaxOps
    /\ _active_temp_resources' = SetAdd(_active_temp_resources, h)
    /\ ops' = ops + 1
    /\ UNCHANGED <<phase, cause, log, frame, atexit_hooks, atexit_left, exiting,
                   exit_code, signals, shutdown_sweeps, last_sweep, convVars, httpVars>>

unregister_resource(h) ==
    /\ MainThreadFree
    /\ ops < MaxOps
    /\ _active_temp_resources' = SetDiscard(_active_temp_resources, h)
    /\ ops' = ops + 1
    /\ UNCHANGED <<phase, cause, log, frame, atexit_hooks, atexit_left, exiting,
                   exit_code, signals, shutdown_sweeps, last_sweep, convVars, httpVars>>

\* cleanup_temp_files called by request code ("on error conditions")
CallCleanup ==
    /\ MainThreadFree
    /\ ops < MaxOps
    /\ frame' = [fn |-> "cleanup_temp_files", caller |-> "request", pc |-> "check",
                 before |-> _active_temp_resources]
    /\ ops' = ops + 1
    /\ UNCHANGED <<phase, cause, _active_temp_resources, log, atexit_hooks,
                   atexit_left, exiting, exit_code, signals, shutdown_sweeps,
                   last_sweep, convVars, httpVars>>

\* Where control goes when cleanup_temp_files returns to its caller.
AfterCleanup(f) ==
    IF f.caller = "signal"
    THEN [f EXCEPT !.fn = "_signal_handler", !.pc = "exit"]
    ELSE NoFrame

CountsAsShutdownSweep(f) == f.caller \in {"signal", "atexit"}

\* cleanup.py:37  `if _active_temp_resources:`
CleanupCheck ==
    /\ frame.fn = "cleanup_temp_files" /\ frame.pc = "check"
    /\ frame' = [frame EXCEPT !.pc = IF _active_temp_resources # {} THEN "log" ELSE "log0"]
    /\ UNCHANGED <<phase, cause, _active_temp_resources, log, atexit_hooks,
                   atexit_left, exiting, exit_code, signals, ops, shutdown_sweeps,
                   last_sweep, convVars, httpVars>>

\* cleanup.py:38-41  logger.info(... len(_active_temp_resources))
CleanupLog ==
    /\ frame.fn = "cleanup_temp_files" /\ frame.pc = "log"
    /\ log' = Append(log, CleanupLine(ResourceCount(_active_temp_resources)))
    /\ frame' = [frame EXCEPT !.pc = "clear"]
    /\ UNCHANGED <<phase, cause, _active_temp_resources, atexit_hooks, atexit_left,
                   exiting, exit_code, signals, ops, shutdown_sweeps, last_sweep,
                   convVars, httpVars>>

\* cleanup.py:43  _active_temp_resources.clear(), then return
CleanupClear ==
    /\ frame.fn = "cleanup_temp_files" /\ frame.pc = "clear"
    /\ _active_temp_resources' = SetClear(_active_temp_resources)
    /\ last_sweep' = [caller |-> frame.caller, before |-> frame.before,
                      reported |-> log[Len(log)].resource_count,
                      removed |-> _active_temp_resources \ SetClear(_active_temp_resources),
                      after |-> SetClear(_active_temp_resources),
                      returned |-> None]
    /\ shutdown_sweeps' = shutdown_sweeps + (IF CountsAsShutdownSweep(frame) THEN 1 ELSE 0)
    /\ frame' = AfterCleanup(frame)
    /\ UNCHANGED <<phase, cause, log, atexit_hooks, atexit_left, exiting, exit_code,
                   signals, ops, convVars, httpVars>>

\* cleanup.py:45  the else branch: logs resource_count 0, then return
CleanupLogZero ==
    /\ frame.fn = "cleanup_temp_files" /\ frame.pc = "log0"
    /\ log' = Append(log, CleanupLine(0))
    /\ last_sweep' = [caller |-> frame.caller, before |-> frame.before,
                      reported |-> 0, removed |-> {},
                      after |-> _active_temp_resources,
                      returned |-> None]
    /\ shutdown_sweeps' = shutdown_sweeps + (IF CountsAsShutdownSweep(frame) THEN 1 ELSE 0)
    /\ frame' = AfterCleanup(frame)
    /\ UNCHANGED <<phase, cause, _active_temp_resources, atexit_hooks, atexit_left,
                   exiting, exit_code, signals, ops, convVars, httpVars>>

cleanup_temp_files == CleanupCheck \/ CleanupLog \/ CleanupClear \/ CleanupLogZero

----------------------------------------------------------------------------
(* conversion_service.py, text_conversion_service.py: LibreOffice calls *)

ConversionFns == {"office_to_pdf", "pdf_to_office", "rtf_to_pdf"}

NoConv == [pc |-> "none", fn |-> "none", id |-> 0, created |-> {}, outcome |-> "none"]
NoResult == [status |-> 0, outcome |-> "none", created |-> {}]

\* tmp_in_path.rsplit('.', 1)[0] + '.' + ext: the path the tool writes to
OutputFile(n) == <<n, "out">>

\* The `finally` of a conversion: os.remove(tmp_in_path) when it exists.
Unwind(files, c) == files \ {InputFile(c.id)}

\* What the function does once subprocess.run has returned or timed out:
\* the files left in /tmp.  Only the success path removes the output.
FilesAfter(files, c) ==
    IF c.outcome = "rc0" /\ OutputFile(c.id) \in files
    THEN Unwind(files \ {OutputFile(c.id)}, c)
    ELSE Unwind(files, c)

\* The exception that leaves the function: none, RuntimeError or TimeoutError.
Raised(files, c) ==
    CASE c.outcome = "timeout" -> "TimeoutError"
      [] c.outcome = "rc1" -> "RuntimeError"
      [] c.outcome = "rc0" /\ OutputFile(c.id) \notin files -> "RuntimeError"
      [] OTHER -> "none"

\* convert.py: the except clauses of a conversion endpoint
EndpointStatus(exc) ==
    CASE exc = "none" -> 200
      [] exc = "TimeoutError" -> 504
      [] OTHER -> 500

\* conversion_service.py:48-54: the input copy is written to /tmp
ConvStart(fn) ==
    /\ MainThreadFree
    /\ conv.pc = "none"
    /\ convs < MaxConversions
    /\ convs' = convs + 1
    /\ conv' = [pc |-> "spawn", fn |-> fn, id |-> convs + 1,
                created |-> {InputFile(convs + 1)}, outcome |-> "none"]
    /\ tmp_files' = tmp_files \cup {InputFile(convs + 1)}
    /\ conv_result' = NoResult
    /\ UNCHANGED <<proc_running, trackerVars, httpVars>>

\* conversion_service.py:58: subprocess.run starts libreoffice and waits
ToolSpawn ==
    /\ frame.fn = "none" /\ conv.pc = "spawn"
    /\ proc_running' = TRUE
    /\ conv' = [conv EXCEPT !.pc = "wait"]
    /\ UNCHANGED <<tmp_files, conv_result, convs, trackerVars, httpVars>>

\* The tool writes its output file into --outdir /tmp.
ToolWritesOutput ==
    /\ conv.pc = "wait" /\ proc_running
    /\ OutputFile(conv.id) \notin tmp_files
    /\ tmp_files' = tmp_files \cup {OutputFile(conv.id)}
    /\ conv' = [conv EXCEPT !.created = @ \cup {OutputFile(conv.id)}]
    /\ UNCHANGED <<proc_running, conv_result, convs, trackerVars, httpVars>>

\* The tool exits with return code 0 or not.
ToolExits(rc) ==
    /\ conv.pc = "wait" /\ proc_running
    /\ proc_running' = FALSE
    /\ conv' = [conv EXCEPT !.outcome = rc]
    /\ UNCHANGED <<tmp_files, conv_result, convs, trackerVars, httpVars>>

\* subprocess.run(timeout=LIBREOFFICE_TIMEOUT): the child is killed and
\* TimeoutExpired is raised.
ToolTimesOut ==
    /\ frame.fn = "none" /\ conv.pc = "wait" /\ proc_running
    /\ proc_running' = FALSE
    /\ conv' = [conv EXCEPT !.outcome = "timeout", !.pc = "after"]
    /\ UNCHANGED <<tmp_files, conv_result, convs, trackerVars, httpVars>>

\* subprocess.run returns the completed process.
RunReturns ==
    /\ frame.fn = "none" /\ conv.pc = "wait" /\ ~proc_running
    /\ conv' = [conv EXCEPT !.pc = "after"]
    /\ UNCHANGED <<tmp_files, proc_running, conv_result, convs, trackerVars, httpVars>>

\* conversion_service.py:68-99 and the endpoint's except clauses.
ConvReturn ==
    /\ frame.fn = "none" /\ conv.pc = "after"
    /\ tmp_files' = FilesAfter(tmp_files, conv)
    /\ conv_result' = [status |-> EndpointStatus(Raised(tmp_files, conv)),
                       outcome |-> conv.outcome, created |-> conv.created]
    /\ conv' = NoConv
    /\ UNCHANGED <<proc_running, convs, trackerVars, httpVars>>

----------------------------------------------------------------------------
(* cleanup.py: the shutdown path *)

\* sys.exit(0)
ExitStatus == 0

\* cleanup.py:74-90, called by main.py's lifespan at startup
register_cleanup_handlers ==
    /\ phase \in {"STARTING", "RUNNING"}
    /\ frame.fn = "none" /\ ~exiting
    /\ atexit_hooks < MaxRegistrations
    /\ atexit_hooks' = atexit_hooks + 1
    /\ log' = Append(log, RegisteredLine)
    /\ phase' = "RUNNING"
    /\ UNCHANGED <<cause, _active_temp_resources, frame, atexit_left, exiting,
                   exit_code, signals, ops, shutdown_sweeps, last_sweep, convVars, httpVars>>

\* cleanup.py:58-67: a signal is delivered on the main thread, whatever it is
\* executing; the code it interrupts is never resumed, only unwound (the
\* handler ends in sys.exit).  The handler logs the signal and calls
\* cleanup_temp_files.
_signal_handler(s) ==
    /\ phase \in {"RUNNING", "SHUTTING_DOWN"}
    /\ signals < MaxSignals
    /\ signals' = signals + 1
    /\ log' = Append(log, SignalLine(s))
    /\ frame' = [fn |-> "cleanup_temp_files", caller |-> "signal", pc |-> "check",
                 before |-> _active_temp_resources]
    /\ phase' = "SHUTTING_DOWN"
    /\ cause' = IF cause = "none" THEN "signal" ELSE cause
    /\ UNCHANGED <<_active_temp_resources, atexit_hooks, atexit_left, exiting,
                   exit_code, ops, shutdown_sweeps, last_sweep, convVars, httpVars>>

\* cleanup.py:70-71: sys.exit(0) raises SystemExit; the interpreter starts to
\* finalize and runs the atexit callbacks.  Raised inside an atexit callback
\* (a signal during finalization) it only ends that callback.
SysExit ==
    /\ frame.fn = "_signal_handler" /\ frame.pc = "exit"
    /\ frame' = NoFrame
    /\ IF exiting
       THEN UNCHANGED <<exiting, exit_code, atexit_left>>
       ELSE /\ exiting' = TRUE
            /\ exit_code' = ExitStatus
            /\ atexit_left' = atexit_hooks
    /\ IF conv.pc = "none"
       THEN UNCHANGED convVars
       ELSE /\ tmp_files' = Unwind(tmp_files, conv)
            /\ proc_running' = FALSE
            /\ conv_result' = [status |-> 0, outcome |-> "aborted",
                               created |-> conv.created]
            /\ conv' = NoConv
            /\ UNCHANGED convs
    /\ UNCHANGED <<phase, cause, _active_temp_resources, log, atexit_hooks, signals,
                   ops, shutdown_sweeps, last_sweep, httpVars>>

\* The server returns and the interpreter exits normally.
NormalExit ==
    /\ MainThreadFree
    /\ conv.pc = "none"
    /\ phase' = "SHUTTING_DOWN"
    /\ cause' = "exit"
    /\ exiting' = TRUE
    /\ exit_code' = 0
    /\ atexit_left' = atexit_hooks
    /\ UNCHANGED <<_active_temp_resources, log, frame, atexit_hooks, signals, ops,
                   shutdown_sweeps, last_sweep, convVars, httpVars>>

\* cleanup.py:88: one registered atexit callback runs cleanup_temp_files
AtexitCallback ==
    /\ exiting /\ frame.fn = "none" /\ phase = "SHUTTING_DOWN"
    /\ atexit_left > 0
    /\ atexit_left' = atexit_left - 1
    /\ frame' = [fn |-> "cleanup_temp_files", caller |-> "atexit", pc |-> "check",
                 before |-> _active_temp_resources]
    /\ UNCHANGED <<phase, cause, _active_temp_resources, log, atexit_hooks, exiting,
                   exit_code, signals, ops, shutdown_sweeps, last_sweep, convVars, httpVars>>

ProcessExit ==
    /\ exiting /\ frame.fn = "none" /\ phase = "SHUTTING_DOWN"
    /\ atexit_left = 0
    /\ phase' = "TERMINATED"
    /\ UNCHANGED <<cause, _active_temp_resources, log, frame, atexit_hooks,
                   atexit_left, exiting, exit_code, signals, ops, shutdown_sweeps,
                   last_sweep, convVars, httpVars>>

----------------------------------------------------------------------------
(* file_utils.py: file names, uploads and the validators *)

\* A text is the sequence of its parts: the name "CONFIDENTIAL.pdf" is
\* <<"CONFIDENTIAL", ".", "pdf">>.  Header values and log lines are built
\* from parts in the same way, so "the name appears in the header" is a test
\* for a contiguous subsequence.
Filenames ==
    { <<>>,
      <<"CONFIDENTIAL">>,
      <<"CONFIDENTIAL", ".", "pdf">>,
      <<"CONFIDENTIAL", ".", "PDF">>,
      <<"CONFIDENTIAL", ".", "docx">> }

\* str.lower
Lower(part) ==
    CASE part = "PDF" -> "pdf"
      [] part = "CONFIDENTIAL" -> "confidential"
      [] part = "At least 2" -> "at least 2"
      [] OTHER -> part

LowerName(name) == [i \in 1..Len(name) |-> Lower(name[i])]

\* str.endswith
EndsWith(name, suffix) ==
    /\ Len(name) >= Len(suffix)
    /\ SubSeq(name, Len(name) - Len(suffix) + 1, Len(name)) = suffix

\* `sub in text`
Contains(sub, text) ==
    \E i \in 0..(Len(text) - Len(sub)) : SubSeq(text, i + 1, i + Len(sub)) = sub

\* index of the last "." of a name, 0 when it has none
LastDot(name) ==
    IF \E i \in 1..Len(name) : name[i] = "."
    THEN CHOOSE i \in 1..Len(name) :
            name[i] = "." /\ \A j \in (i + 1)..Len(name) : name[j] # "."
    ELSE 0

\* name.rsplit('.', 1)[0]
RSplitDot(name) ==
    IF LastDot(name) = 0 THEN name ELSE SubSeq(name, 1, LastDot(name) - 1)

\* Path(name).stem: a leading or a trailing dot starts no suffix
PathStem(name) ==
    IF LastDot(name) > 1 /\ LastDot(name) < Len(name)
    THEN SubSeq(name, 1, LastDot(name) - 1)
    ELSE name

\* Path(name).suffix
PathSuffix(name) ==
    IF LastDot(name) > 1 /\ LastDot(name) < Len(name)
    THEN SubSeq(name, LastDot(name), Len(name))
    ELSE <<>>

ALLOWED_PDF_TYPES == {"application/pdf"}
ALLOWED_IMAGE_TYPES == {"image/jpeg", "image/png", "image/gif", "image/webp", "image/bmp"}
WORD_TYPES ==
    { "application/vnd.openxmlformats-officedocument.wordprocessingml.document",
      "application/msword" }
IMAGE_EXTENSIONS ==
    { <<".", "jpg">>, <<".", "jpeg">>, <<".", "png">>, <<".", "gif">>,
      <<".", "webp">>, <<".", "bmp">> }

\* config.py: MAX_FILE_SIZE_MB and the MAX_UPLOAD_SIZE_BYTES property
MAX_FILE_SIZE_MB == 100
MAX_UPLOAD_SIZE_BYTES == MAX_FILE_SIZE_MB * 1024 * 1024

\* The content of an upload: its length and the bytes it starts with.
\* lock: the password the document is encrypted with, "" when it is not.
Body(size, head) == [size |-> size, head |-> head, lock |-> ""]
Magics == {"%PDF-", "PK", "PNG", "{\\rtf"}
Bodies ==
    {Body(0, "")} \cup
    {Body(s, h) : s \in {10, MAX_UPLOAD_SIZE_BYTES + 1}, h \in Magics}

\* content.startswith(magic)
StartsWith(body, magic) == body.size > 0 /\ body.head = magic

ContentTypes ==
    { "application/pdf", "image/png",
      "application/vnd.openxmlformats-officedocument.wordprocessingml.document" }

\* UploadFile
Uploads == [filename : Filenames, content_type : ContentTypes, body : Bodies]

\* The validators return normally (0 here) or raise FileValidationError with
\* a status code.
validate_pdf_sizeFirst(u) ==
    IF u.body.size > MAX_UPLOAD_SIZE_BYTES THEN 413
    ELSE IF u.body.size = 0 THEN 400
    ELSE IF /\ u.content_type \notin ALLOWED_PDF_TYPES
            /\ ~EndsWith(LowerName(u.filename), <<".", "pdf">>)
    THEN 415
    ELSE IF ~StartsWith(u.body, "%PDF-") THEN 400
    ELSE 0
validate_pdf_sizeInclusive(u) ==
    IF /\ u.content_type \notin ALLOWED_PDF_TYPES
       /\ ~EndsWith(LowerName(u.filename), <<".", "pdf">>)
    THEN 415
    ELSE IF u.body.size >= MAX_UPLOAD_SIZE_BYTES THEN 413
    ELSE IF u.body.size = 0 THEN 400
    ELSE IF ~StartsWith(u.body, "%PDF-") THEN 400
    ELSE 0
validate_pdf(u) ==
    IF /\ u.content_type \notin ALLOWED_PDF_TYPES
       /\ ~EndsWith(LowerName(u.filename), <<".", "pdf">>)
    THEN 415
    ELSE IF u.body.size > MAX_UPLOAD_SIZE_BYTES THEN 413
    ELSE IF u.body.size = 0 THEN 400
    ELSE IF ~StartsWith(u.body, "%PDF-") THEN 400
    ELSE 0

validate_image(u) ==
    IF /\ u.content_type \notin ALLOWED_IMAGE_TYPES
       /\ LowerName(PathSuffix(u.filename)) \notin IMAGE_EXTENSIONS
    THEN 415
    ELSE IF u.body.size > MAX_UPLOAD_SIZE_BYTES THEN 413
    ELSE IF u.body.size = 0 THEN 400
    ELSE 0

validate_docx(u) ==
    IF /\ u.content_type \notin WORD_TYPES
       /\ ~EndsWith(LowerName(u.filename), <<".", "docx">>)
       /\ ~EndsWith(LowerName(u.filename), <<".", "doc">>)
    THEN 415
    ELSE IF u.body.size > MAX_UPLOAD_SIZE_BYTES THEN 413
    ELSE IF u.body.size = 0 THEN 400
    ELSE IF ~StartsWith(u.body, "PK") THEN 400
    ELSE 0

\* text_conversion_service.py: validate_rtf_content, which api_rtf_to_pdf
\* answers with 400 when it is false
validate_rtf_content(u) == IF StartsWith(u.body, "{\\rtf") THEN 0 ELSE 400

Validate(kind, u) ==
    CASE kind = "pdf" -> validate_pdf(u)
      [] kind = "rtf_content" -> validate_rtf_content(u)
      [] kind = "image" -> validate_image(u)
      [] kind = "docx" -> validate_docx(u)

----------------------------------------------------------------------------
(* main.py, api/v1: the routes and their handlers *)

\* The routers main.py mounts under /api/v1 are pdf, image and convert; the
\* batch router is not included, so its path has no route.
Paths ==
    { "/health", "/api/v1/pdf/merge", "/api/v1/pdf/rotate",
      "/api/v1/pdf/watermark/image", "/api/v1/pdf/compare",
      "/api/v1/convert/word-to-pdf", "/api/v1/convert/rtf-to-pdf",
      "/api/v1/batch/process" }

Route(path) ==
    CASE path = "/health" -> "health_check"
      [] path = "/" -> "serve_index"
      [] path = "/api/v1/pdf/merge" -> "api_merge_pdfs"
      [] path = "/api/v1/pdf/split" -> "api_split_pdf"
      [] path = "/api/v1/pdf/rotate" -> "api_rotate_pages"
      [] path = "/api/v1/pdf/delete-pages" -> "api_delete_pages"
      [] path = "/api/v1/pdf/password/add" -> "api_add_password"
      [] path = "/api/v1/pdf/password/remove" -> "api_remove_password"
      [] path = "/api/v1/pdf/watermark/image" -> "api_add_image_watermark"
      [] path = "/api/v1/pdf/compare" -> "api_compare_pdfs"
      [] path = "/api/v1/convert/word-to-pdf" -> "api_word_to_pdf"
      [] path = "/api/v1/convert/rtf-to-pdf" -> "api_rtf_to_pdf"
      [] OTHER -> "none"

PdfEndpoints ==
    {"api_merge_pdfs", "api_rotate_pages", "api_add_image_watermark", "api_compare_pdfs"}

ConvertEndpoints == {"api_word_to_pdf", "api_rtf_to_pdf"}

\* @app.get / @router.post
RouteMethod(route) == IF route \in {"health_check", "serve_index"} THEN "GET" ELSE "POST"

\* The File(...) parameters a handler requires.
ArityMergeOfTwo(route) ==
    CASE route \in {"health_check", "serve_index"} -> 0
      [] route \in {"api_add_image_watermark", "api_compare_pdfs", "api_merge_pdfs"} -> 2
      [] OTHER -> 1
Arity(route) ==
    CASE route \in {"health_check", "serve_index"} -> 0
      [] route \in {"api_add_image_watermark", "api_compare_pdfs"} -> 2
      [] OTHER -> 1

\* The validator a handler applies to each upload, in the order of its calls.
Validators(route, files) ==
    CASE route = "api_merge_pdfs" -> [i \in 1..Len(files) |-> "pdf"]
      [] route \in {"api_split_pdf", "api_rotate_pages", "api_delete_pages",
                    "api_add_password", "api_remove_password"} -> <<"pdf">>
      [] route = "api_add_image_watermark" -> <<"pdf", "image">>
      [] route = "api_compare_pdfs" -> <<"pdf", "pdf">>
      [] route = "api_word_to_pdf" -> <<"docx">>
      [] route = "api_rtf_to_pdf" -> <<"rtf_content">>
      [] OTHER -> <<>>

Checks(route, files) ==
    [i \in 1..Len(Validators(route, files)) |->
        Validate(Validators(route, files)[i], files[i])]

\* The validators are awaited one after the other: the first one that raises
\* ends the `try` body.  0 when none raises.
OnlyFirstCheck(checks) == IF Len(checks) = 0 THEN 0 ELSE checks[1]
FirstFailure(checks) ==
    IF \A i \in 1..Len(checks) : checks[i] = 0
    THEN 0
    ELSE checks[CHOOSE i \in 1..Len(checks) :
                    checks[i] # 0 /\ \A j \in 1..(i - 1) : checks[j] = 0]

\* `file.filename.rsplit('.', 1)[0] if file.filename else default`
BaseName(u, default) == IF u.filename # <<>> THEN RSplitDot(u.filename) ELSE <<default>>

\* generate_filename(operation, original_name)
generate_filename(operation, original_name) ==
    PathStem(original_name) \o <<"_", operation, ".", "pdf">>

\* The name the handler puts in Content-Disposition.
DownloadName(route, files) ==
    CASE route = "api_merge_pdfs" ->
            generate_filename("merged",
                IF files[1].filename # <<>> THEN files[1].filename ELSE <<"document">>)
      [] route = "api_rotate_pages" ->
            BaseName(files[1], "document") \o <<"_rotated", ".", "pdf">>
      [] route = "api_delete_pages" ->
            BaseName(files[1], "document") \o <<"_modified", ".", "pdf">>
      [] route = "api_add_password" ->
            BaseName(files[1], "document") \o <<"_protected", ".", "pdf">>
      [] route = "api_remove_password" ->
            BaseName(files[1], "document") \o <<"_decrypted", ".", "pdf">>
      [] route = "api_add_image_watermark" ->
            BaseName(files[1], "document") \o <<"_watermarked", ".", "pdf">>
      [] route = "api_compare_pdfs" ->
            BaseName(files[1], "file1") \o <<"_vs_">> \o BaseName(files[2], "file2")
                \o <<"_comparison", ".", "pdf">>
      [] route \in {"api_word_to_pdf", "api_rtf_to_pdf"} ->
            BaseName(files[1], "document") \o <<".", "pdf">>

ContentDisposition(name) == <<"attachment; filename=", "\"">> \o name \o <<"\"">>

\* What comes out of a layer of the application: a response, or an exception
\* that escapes the layer; the log lines written so far; the transform calls.
JsonResponse(status, calls) ==
    [status |-> status, headers |-> ("content-type" :> <<"application/json">>),
     lines |-> <<>>, calls |-> calls, escaped |-> FALSE]
StreamingResponse(name, calls) ==
    [status |-> 200,
     headers |-> ("content-type" :> <<"application/pdf">>)
                    @@ ("content-disposition" :> ContentDisposition(name)),
     lines |-> <<>>, calls |-> calls, escaped |-> FALSE]
ZipResponse(name, calls) ==
    [status |-> 200,
     headers |-> ("content-type" :> <<"application/zip">>)
                    @@ ("content-disposition" :> ContentDisposition(name)),
     lines |-> <<>>, calls |-> calls, escaped |-> FALSE]
Escaped(calls) ==
    [status |-> 0, headers |-> ("content-type" :> <<"text/plain">>),
     lines |-> <<>>, calls |-> calls, escaped |-> TRUE]

\* main.py: FileResponse(STATIC_DIR / "index.html")
FileResponse(calls) ==
    [status |-> 200, headers |-> ("content-type" :> <<"text/html">>),
     lines |-> <<>>, calls |-> calls, escaped |-> FALSE]

TransformExceptions == {"none", "RuntimeError", "TimeoutError"}

----------------------------------------------------------------------------
(* The options of a request: the Form(...) fields next to the upload *)

\* The pages every well-formed document of the model has.
DocPages == 2

\* A `pages` field as the handler reads it: left out, the text 'all', other
\* text json.loads rejects, a JSON array of integers, or JSON of another
\* shape (a number other than 0).
Pages(kind, items) == [kind |-> kind, items |-> items]

PagesFields ==
    {Pages(k, <<>>) : k \in {"absent", "all", "malformed", "scalar"}}
        \cup {Pages("list", l) : l \in {<<>>, <<1>>, <<2>>, <<1, 2>>, <<1, 1>>, <<0>>, <<3>>}}

\* A URL: its scheme and its host, which is a name (labels and dots) or an
\* IPv4 literal (four octets).
Url(scheme, name, ip) == [scheme |-> scheme, name |-> name, ip |-> ip]

\* The form a client sends when it sets no option wrongly.
DefaultForm ==
    [pages |-> Pages("absent", <<>>), degrees |-> 90, mode |-> "range", start |-> 1, end |-> 1,
     n_pages |-> 1, url |-> Url("", <<>>, <<>>), password |-> "test123"]

\* schemas/pdf.py: class SplitMode
SplitMode == {"range", "every_n", "specific"}

\* The exception the handler raises itself while it parses the options,
\* after the upload is validated and before it calls the transform.
ParseOptions(route, form) ==
    CASE route = "api_split_pdf" ->
            IF form.mode \notin SplitMode THEN "HTTPException"
            ELSE IF form.pages.kind \in {"malformed", "all"} THEN "HTTPException"
            ELSE "none"
      [] route = "api_rotate_pages" ->
            IF form.pages.kind = "malformed" THEN "HTTPException" ELSE "none"
      [] route = "api_delete_pages" ->
            IF form.pages.kind \in {"malformed", "all"} THEN "HTTPException" ELSE "none"
      [] OTHER -> "none"

\* validate_page_numbers(pages, total_pages): TRUE when it raises.
validate_page_numbers(pages, total_pages) ==
    \E i \in 1..Len(pages) : pages[i] < 1 \/ pages[i] > total_pages

valid_degrees == {90, 180, 270, -90, -180, -270}

\* What iterating over the parsed pages raises before any page is touched.
IteratePages(pages, total_pages) ==
    IF pages.kind # "list" THEN "TypeError"
    ELSE IF validate_page_numbers(pages.items, total_pages) THEN "InvalidPageError"
    ELSE "none"

\* rotate_pages(file, pages, degrees): the exception it raises, "none" when
\* it returns.  exc is what pikepdf raises when it opens the document.
rotate_pages(pages, degrees, exc) ==
    IF degrees \notin valid_degrees THEN "InvalidRotationError"
    ELSE IF exc # "none" THEN exc
    ELSE IF pages.kind \in {"absent", "all"} THEN "none"
    ELSE IteratePages(pages, DocPages)

\* delete_pages(file, pages)
\* pdf_service.py:257-262: the pages of a document of DocPages pages, named
\* by their original numbers, after doc.delete_page(page - 1) for each page
\* of sorted(set(pages), reverse=True).
PagesAfterDelete(items) ==
    LET requested == {items[i] : i \in 1..Len(items)}
        RECURSIVE SortedReverse(_)
        SortedReverse(S) ==
            IF S = {} THEN <<>>
            ELSE LET top == CHOOSE x \in S : \A y \in S : y <= x
                 IN <<top>> \o SortedReverse(S \ {top})
        RECURSIVE DeleteEach(_, _)
        DeleteEach(doc, todo) ==
            IF todo = <<>> THEN doc
            ELSE DeleteEach(SubSeq(doc, 1, Head(todo) - 1)
                                \o SubSeq(doc, Head(todo) + 1, Len(doc)),
                            Tail(todo))
    IN DeleteEach([n \in 1..DocPages |-> n], SortedReverse(requested))

delete_pages(pages, exc) ==
    IF exc # "none" THEN exc
    ELSE IF IteratePages(pages, DocPages) # "none" THEN IteratePages(pages, DocPages)
    ELSE IF Len(pages.items) >= DocPages THEN "EmptyResultError"
    ELSE "none"

\* split_pdf(file, mode, start, end, n_pages, pages)
split_pdf(form, exc) ==
    IF exc # "none" THEN exc
    ELSE CASE form.mode = "range" ->
                IF validate_page_numbers(<<form.start, form.end>>, DocPages)
                THEN "InvalidPageError" ELSE "none"
           [] form.mode = "every_n" ->
                IF form.n_pages < 1 THEN "ValueError" ELSE "none"
           [] form.mode = "specific" ->
                IF form.pages.kind = "absent" \/ form.pages = Pages("list", <<>>)
                THEN "ValueError"
                ELSE IteratePages(form.pages, DocPages)

\* add_password(file, password, permissions): pikepdf opens the document
\* without a password, which an encrypted document refuses.
add_password(body, exc) ==
    IF exc # "none" THEN exc
    ELSE IF body.lock # "" THEN "PasswordError"
    ELSE "none"

\* remove_password(file, password): pikepdf opens the document with the
\* password; its PasswordError and PdfError are raised again as
\* FileValidationError with status 401 and 400.
remove_passwordAnyPassword(body, password, exc) ==
    IF exc = "PdfError" THEN "FileValidationError400"
    ELSE IF exc # "none" THEN exc
    ELSE "none"
remove_password(body, password, exc) ==
    IF exc = "PdfError" THEN "FileValidationError400"
    ELSE IF exc # "none" THEN exc
    ELSE IF body.lock \notin {"", password} THEN "FileValidationError401"
    ELSE "none"

\* The document a password handler returns when its transform returns:
\* pdf.save with the encryption of the password, pdf.save without.
Saved(route, body, password) ==
    IF route = "api_add_password" THEN [body EXCEPT !.lock = password]
    ELSE [body EXCEPT !.lock = ""]

\* The transform each handler calls and what it raises; exc is what the
\* library under it raises when it fails on the document.
Transform(route, files, form, exc) ==
    CASE route = "api_split_pdf" -> split_pdf(form, exc)
      [] route = "api_add_password" -> add_password(files[1].body, exc)
      [] route = "api_remove_password" ->
            remove_password(files[1].body, form.password, exc)
      [] route = "api_rotate_pages" -> rotate_pages(form.pages, form.degrees, exc)
      [] route = "api_delete_pages" -> delete_pages(form.pages, exc)
      [] OTHER -> exc

\* The pages of each document split_pdf returns.
SplitResults(form) ==
    CASE form.mode = "range" -> <<form.end - (form.start - 1)>>
      [] form.mode = "every_n" ->
            [c \in 1..((DocPages + form.n_pages - 1) \div form.n_pages) |->
                IF c * form.n_pages <= DocPages THEN form.n_pages
                ELSE DocPages - (c - 1) * form.n_pages]
      [] form.mode = "specific" -> <<Len(form.pages.items)>>

\* The name split_pdf gives its only result.
SplitName(form) ==
    CASE form.mode = "range" ->
            <<"pages_", ToString(form.start), "-", ToString(form.end), ".", "pdf">>
      [] form.mode = "every_n" -> <<"chunk_1", ".", "pdf">>
      [] form.mode = "specific" -> <<"pages_", ToString(form.pages.items), ".", "pdf">>

\* The except clauses under a handler's try, for an exception of the
\* transform or of the handler's own parsing: convert.py answers TimeoutError
\* with 504, split and delete-pages answer their typed errors with 400,
\* `except Exception` answers the rest, an HTTPException the handler raised
\* in its try included, with 500.  0 when no clause catches the exception.
ExceptOnlyTimeout(route, exc) ==
    IF route \in ConvertEndpoints /\ exc = "TimeoutError" THEN 504 ELSE 0
ExceptClauses(route, exc) ==
    CASE route \in ConvertEndpoints -> EndpointStatus(exc)
      [] route = "api_split_pdf" /\ exc = "InvalidPageError" -> 400
      [] route = "api_delete_pages"
            /\ exc \in {"InvalidPageError", "EmptyResultError"} -> 400
      [] exc = "FileValidationError401" -> 401
      [] exc = "FileValidationError400" -> 400
      [] OTHER -> 500

\* The response a handler returns once its transform has returned.
Returned(route, files, form) ==
    IF route # "api_split_pdf" THEN StreamingResponse(DownloadName(route, files), 1)
    ELSE IF Len(SplitResults(form)) = 1 THEN StreamingResponse(SplitName(form), 1)
    ELSE ZipResponse(BaseName(files[1], "document") \o <<"_split", ".", "zip">>, 1)

\* A route handler, from its first line to its return or raise.  serve_index
\* has no try: when index.html cannot be read the RuntimeError of its
\* FileResponse leaves the handler.
Endpoint(route, files, form, exc) ==
    IF route = "health_check" THEN JsonResponse(200, 0)
    ELSE IF route = "serve_index"
    THEN (IF exc = "none" THEN FileResponse(0) ELSE Escaped(0))
    ELSE IF route = "api_merge_pdfs" /\ Len(files) < 2 THEN JsonResponse(400, 0)
    ELSE IF FirstFailure(Checks(route, files)) # 0
    THEN JsonResponse(FirstFailure(Checks(route, files)), 0)
    ELSE IF ParseOptions(route, form) # "none"
    THEN JsonResponse(ExceptClauses(route, ParseOptions(route, form)), 0)
    ELSE IF Transform(route, files, form, exc) = "none" THEN Returned(route, files, form)
    ELSE IF ExceptClauses(route, Transform(route, files, form, exc)) = 0 THEN Escaped(1)
    ELSE JsonResponse(ExceptClauses(route, Transform(route, files, form, exc)), 1)

\* `return BytesIO(content)`: what a validator hands back
ValidatedPayload(u) == u.body

\* `pages: str = Form(...)`: the field delete-pages requires.
MissingField(route, form) == route = "api_delete_pages" /\ form.pages.kind = "absent"

\* FastAPI's routing: no route, wrong method, a required part missing.
Router(req, exc) ==
    IF Route(req.path) = "none" THEN JsonResponse(404, 0)
    ELSE IF req.method # RouteMethod(Route(req.path)) THEN JsonResponse(405, 0)
    ELSE IF Len(req.files) < Arity(Route(req.path)) THEN JsonResponse(422, 0)
    ELSE IF MissingField(Route(req.path), req.form) THEN JsonResponse(422, 0)
    ELSE Endpoint(Route(req.path), req.files, req.form, exc)

----------------------------------------------------------------------------
(* middleware: privacy_logging.py and cache_headers.py *)

\* request.url.path: the URL without its query string
UrlWithQuery(req) == <<req.path>> \o req.query
UrlPath(req) == <<req.path>>

\* The line PrivacyLoggingMiddleware logs.
AuditLine(rid, method, path, status, duration) ==
    [request_id |-> rid, method |-> method, path |-> path, status |-> status,
     duration_ms |-> duration]

\* The text of the line, as the logger formats it.
LineText(line) ==
    <<"request_id", line.request_id, "method", line.method, "path">> \o line.path
        \o <<"status", ToString(line.status), "duration_ms", ToString(line.duration_ms)>>

\* PrivacyLoggingMiddleware.dispatch around the inner application.  An
\* exception of call_next passes through: nothing is logged, nothing is set.
PrivacyLoggingMiddleware(req, inner, rid, duration) ==
    IF inner.escaped THEN inner
    ELSE [inner EXCEPT
            !.lines = Append(@, AuditLine(rid, req.method, UrlPath(req),
                                          inner.status, duration)),
            !.headers = ("x-request-id" :> <<rid>>) @@ @]

NoCacheValue == <<"no-store", ", ", "no-cache", ", ", "must-revalidate", ", ", "private">>

\* CacheHeadersMiddleware.dispatch around the inner application.
CacheHeadersMiddleware(inner) ==
    IF inner.escaped THEN inner
    ELSE [inner EXCEPT
            !.headers = ("cache-control" :> NoCacheValue)
                            @@ ("pragma" :> <<"no-cache">>)
                            @@ ("expires" :> <<"0">>)
                            @@ ("x-content-type-options" :> <<"nosniff">>)
                            @@ @]

\* An exception that escapes every middleware is answered by the server's
\* outermost error handler with a plain 500.
ServerError(inner) ==
    IF inner.escaped THEN [inner EXCEPT !.status = 500, !.escaped = FALSE] ELSE inner

\* main.py: add_middleware wraps, so the middleware added last is outermost.
App(req, rid, duration, exc) ==
    ServerError(
        CacheHeadersMiddleware(
            PrivacyLoggingMiddleware(req, Router(req, exc), rid, duration)))

----------------------------------------------------------------------------
(* HTTP exchanges *)

Methods == {"GET", "POST"}
Queries == {<<>>, <<"?", "name", "=", "CONFIDENTIAL">>}
Clients == {"10.0.0.1", "10.0.0.2"}
UserAgents == {"curl", "Mozilla"}
RequestIds == {"1a2b3c4d", "9f8e7d6c"}
Durations == {1, 2}

\* Uploads of the handlers that take two files.
PairUploads ==
    [filename : {<<"CONFIDENTIAL", ".", "pdf">>},
     content_type : {"application/pdf", "image/png"},
     body : {Body(0, ""), Body(10, "%PDF-"), Body(10, "PNG")}]

FilesFor(path) ==
    CASE path = "/api/v1/pdf/rotate" -> {<<>>} \cup {<<u>> : u \in Uploads}
      [] path \in {"/api/v1/convert/word-to-pdf", "/api/v1/convert/rtf-to-pdf"} ->
            {<<u>> : u \in Uploads}
      [] path = "/api/v1/pdf/merge" ->
            {<<>>} \cup {<<u>> : u \in PairUploads}
                \cup {<<u, v>> : u \in PairUploads, v \in PairUploads}
      [] path \in {"/api/v1/pdf/watermark/image", "/api/v1/pdf/compare"} ->
            {<<u, v>> : u \in PairUploads, v \in PairUploads}
      [] OTHER -> {<<>>}

RequestsFor(path) ==
    [method : Methods, path : {path}, query : Queries, client : Clients,
     user_agent : UserAgents, files : FilesFor(path), form : {DefaultForm}]

Requests == UNION {RequestsFor(p) : p \in Paths}

NoRequest ==
    [method |-> "none", path |-> "none", query |-> <<>>, client |-> "none",
     user_agent |-> "none", files |-> <<>>, form |-> DefaultForm]
NoDocument == [size |-> -1, head |-> "", lock |-> ""]
NoResponse ==
    [status |-> 0, headers |-> ("content-type" :> <<>>), detail |-> <<>>,
     document |-> NoDocument]
NoExchange == [request |-> NoRequest, status |-> 0, exc |-> "none", lines |-> <<>>]

\* The messages of the exceptions raised under a transform: a path of the
\* server's file system, the output of the external tool.
Messages ==
    { <<"[Errno 2] No such file or directory: ", "/tmp/tmpk3v9.docx">>,
      <<"LibreOffice conversion failed: ", "Error: source file could not be loaded">> }

\* The text each handler's `except Exception` puts before str(e).
ErrorPrefix(route) ==
    CASE route = "api_merge_pdfs" -> "Error merging PDFs: "
      [] route = "api_split_pdf" -> "Error splitting PDF: "
      [] route = "api_rotate_pages" -> "Error rotating pages: "
      [] route = "api_delete_pages" -> "Error deleting pages: "
      [] route = "api_add_password" -> "Error adding password: "
      [] route = "api_remove_password" -> "Error removing password: "
      [] route = "api_add_image_watermark" -> "Error adding watermark: "
      [] route = "api_compare_pdfs" -> "Error comparing PDFs: "
      [] route = "api_word_to_pdf" -> "Error converting document: "
      [] route = "api_rtf_to_pdf" -> "Error converting RTF to PDF: "
      [] OTHER -> ""

\* The detail of the HTTPException a handler builds from an exception e of
\* its transform with str(e) = msg: `detail=f"Error ...: {str(e)}"` under
\* `except Exception`, `detail=str(e)` under the typed clauses.
ErrorDetail(route, exc, msg) ==
    IF ExceptClauses(route, exc) = 500 THEN <<ErrorPrefix(route)>> \o msg ELSE msg

\* The detail field of the response body: of the 400 of a merge of fewer
\* than 2 files, and when the library under the transform raised exc with
\* message msg; <<>> for every other response, whose body is not modelled.
Detail(req, exc, msg) ==
    IF /\ Route(req.path) = "api_merge_pdfs"
       /\ Router(req, exc) = JsonResponse(400, 0)
       /\ Len(req.files) < 2
    THEN <<"At least 2", " PDF files are required for merging">>
    ELSE
    IF /\ exc # "none"
       /\ Router(req, exc).calls > 0
       /\ ~ Router(req, exc).escaped
       /\ Transform(Route(req.path), req.files, req.form, exc) = exc
    THEN ErrorDetail(Route(req.path), exc, msg)
    ELSE <<>>

\* The document in the body of the response of a password handler;
\* NoDocument for every other response, whose body is not modelled.
Document(req, exc) ==
    IF /\ Route(req.path) \in {"api_add_password", "api_remove_password"}
       /\ Router(req, exc).status = 200
    THEN Saved(Route(req.path), ValidatedPayload(req.files[1]), req.form.password)
    ELSE NoDocument

\* The arguments of the transform call, when the handler makes it.
TransformInput(req, exc) ==
    IF Router(req, exc).calls > 0
    THEN [i \in 1..Len(req.files) |-> ValidatedPayload(req.files[i])]
    ELSE <<>>

\* One request through the whole application: the middleware chain, the
\* router, the handler.  The request id is random and the duration measured;
\* exc is what the transform raises if the handler reaches it.
Exchange(req, rid, duration, exc) ==
    /\ (exc # "none" => Router(req, exc) # Router(req, "none"))
    /\ request' = req
    /\ \E msg \in Messages :
         response' = [status |-> App(req, rid, duration, exc).status,
                      headers |-> App(req, rid, duration, exc).headers,
                      detail |-> Detail(req, exc, msg),
                      document |-> Document(req, exc)]
    /\ access_log' = App(req, rid, duration, exc).lines
    /\ transform_calls' = App(req, rid, duration, exc).calls
    /\ transform_exc' = exc
    /\ transform_input' = TransformInput(req, exc)

\* The server takes a request when it is running and idle.
Serve(requests, exceptions) ==
    /\ MainThreadFree
    /\ response = NoResponse
    /\ \E req \in requests : \E rid \in RequestIds : \E d \in Durations :
         \E exc \in exceptions : Exchange(req, rid, d, exc)
    /\ UNCHANGED <<fetched, read_wait, prev, trackerVars, convVars>>

\* The response has been sent: the server waits for the next request.
ResponseSent ==
    /\ response # NoResponse
    /\ request' = NoRequest
    /\ response' = NoResponse
    /\ access_log' = <<>>
    /\ transform_calls' = 0
    /\ transform_exc' = "none"
    /\ transform_input' = <<>>
    /\ fetched' = <<>>
    /\ read_wait' = 0
    /\ UNCHANGED <<prev, trackerVars, convVars>>

\* The same, and the finished exchange is remembered to compare the next
\* one with it.
ResponseSentRecorded ==
    /\ response # NoResponse
    /\ prev' = [request |-> request, status |-> response.status,
                exc |-> transform_exc, lines |-> access_log]
    /\ request' = NoRequest
    /\ response' = NoResponse
    /\ access_log' = <<>>
    /\ transform_calls' = 0
    /\ transform_exc' = "none"
    /\ transform_input' = <<>>
    /\ fetched' = <<>>
    /\ read_wait' = 0
    /\ UNCHANGED <<trackerVars, convVars>>

----------------------------------------------------------------------------
(* Specification of the tracker and the shutdown path *)

InitExchange ==
    /\ request = NoRequest
    /\ response = NoResponse
    /\ access_log = <<>>
    /\ transform_calls = 0
    /\ transform_exc = "none"
    /\ transform_input = <<>>
    /\ fetched = <<>>
    /\ read_wait = 0
    /\ prev = NoExchange

InitTracker ==
    /\ phase = "STARTING"
    /\ cause = "none"
    /\ _active_temp_resources = {}
    /\ log = <<>>
    /\ frame = NoFrame
    /\ atexit_hooks = 0
    /\ atexit_left = 0
    /\ exiting = FALSE
    /\ exit_code = -1
    /\ signals = 0
    /\ ops = 0
    /\ shutdown_sweeps = 0
    /\ last_sweep = NoSweep

InitConv ==
    /\ tmp_files = {}
    /\ conv = NoConv
    /\ proc_running = FALSE
    /\ conv_result = NoResult
    /\ convs = 0

Init == InitTracker /\ InitConv /\ InitExchange

ShutdownStep ==
    \/ cleanup_temp_files
    \/ SysExit
    \/ AtexitCallback
    \/ ProcessExit

Next ==
    \/ register_cleanup_handlers
    \/ \E h \in Handles : register_resource(h)
    \/ \E h \in Handles : unregister_resource(h)
    \/ CallCleanup
    \/ CleanupCheck
    \/ CleanupLog
    \/ CleanupClear
    \/ CleanupLogZero
    \/ \E s \in SignalNames : _signal_handler(s)
    \/ SysExit
    \/ NormalExit
    \/ AtexitCallback
    \/ ProcessExit

Spec == Init /\ [][Next]_vars

\* The interpreter keeps executing the code it is in: the steps of a running
\* cleanup, of the handler and of finalization are taken.  Nothing obliges a
\* signal to arrive or request code to call the tracker.
FairSpec == Spec /\ WF_vars(ShutdownStep)

----------------------------------------------------------------------------
(* Specification of the conversions, with the shutdown path *)

NextConv ==
    \/ register_cleanup_handlers
    \/ \E h \in Handles : register_resource(h)
    \/ \E h \in Handles : unregister_resource(h)
    \/ \E fn \in ConversionFns : ConvStart(fn)
    \/ ToolSpawn
    \/ ToolWritesOutput
    \/ \E rc \in {"rc0", "rc1"} : ToolExits(rc)
    \/ ToolTimesOut
    \/ RunReturns
    \/ ConvReturn
    \/ CleanupCheck
    \/ CleanupLog
    \/ CleanupClear
    \/ CleanupLogZero
    \/ \E s \in SignalNames : _signal_handler(s)
    \/ SysExit
    \/ AtexitCallback
    \/ ProcessExit

SpecConv == Init /\ [][NextConv]_vars

----------------------------------------------------------------------------
(* Specification of the HTTP exchanges *)

\* The server after startup: the lifespan has called register_cleanup_handlers.
InitServing ==
    /\ phase = "RUNNING"
    /\ cause = "none"
    /\ _active_temp_resources = {}
    /\ log = <<RegisteredLine>>
    /\ frame = NoFrame
    /\ atexit_hooks = 1
    /\ atexit_left = 0
    /\ exiting = FALSE
    /\ exit_code = -1
    /\ signals = 0
    /\ ops = 0
    /\ shutdown_sweeps = 0
    /\ last_sweep = NoSweep

InitHttp == InitServing /\ InitConv /\ InitExchange

NextHttp ==
    \/ Serve(Requests, TransformExceptions)
    \/ ResponseSent

SpecHttp == InitHttp /\ [][NextHttp]_vars

\* The pages of the web UI, whose files may be missing from the static
\* directory, next to the health route.
StaticRequests ==
    [method : Methods, path : {"/", "/health"}, query : Queries, client : Clients,
     user_agent : UserAgents, files : {<<>>}, form : {DefaultForm}]

NextStatic ==
    \/ Serve(StaticRequests, {"none", "RuntimeError"})
    \/ ResponseSent

SpecStatic == InitHttp /\ [][NextStatic]_vars

----------------------------------------------------------------------------
(* services/web_conversion_service.py and the url-to-pdf handler *)

\* The redirects httpx follows for one request, at most.
MaxRedirects == 2

\* ipaddress: an IPv4 address that is_private (which holds the loopback and
\* link-local networks), is_multicast or is_reserved.
InternalAddress(ip) ==
    \/ ip[1] \in {0, 10, 127}
    \/ ip[1] = 172 /\ ip[2] \in 16..31
    \/ ip[1] = 192 /\ ip[2] = 168
    \/ ip[1] = 169 /\ ip[2] = 254
    \/ ip[1] \in 224..239
    \/ ip[1] \in 240..255

\* _is_safe_url(url)
_is_safe_url(url) ==
    /\ url.scheme \in {"http", "https"}
    /\ url.name # <<>> \/ url.ip # <<>>
    /\ url.name # <<"localhost">>
    /\ url.ip \notin {<<127, 0, 0, 1>>, <<0, 0, 0, 0>>}
    /\ IF url.ip # <<>>
       THEN ~ InternalAddress(url.ip)
       ELSE \A pattern \in {<<"localhost">>, <<"internal">>, <<"local">>, <<"intranet">>,
                            <<".", "local">>, <<".", "internal">>, <<".", "localhost">>} :
                ~ Contains(pattern, url.name)

\* The URLs a client submits and a web server names in a Location header.
Urls ==
    { Url("http", <<"example", ".", "com">>, <<>>),
      Url("ftp", <<"example", ".", "com">>, <<>>),
      Url("http", <<"localhost">>, <<>>),
      Url("http", <<"db", ".", "internal">>, <<>>),
      Url("http", <<>>, <<93, 184, 216, 34>>),
      Url("http", <<>>, <<127, 0, 0, 1>>),
      Url("http", <<>>, <<10, 0, 0, 5>>),
      Url("http", <<>>, <<169, 254, 169, 254>>),
      Url("http", <<>>, <<224, 0, 0, 1>>),
      Url("http", <<>>, <<240, 0, 0, 1>>) }

\* The addresses a connection to the host of a URL can go to: the literal,
\* or what the resolver answers for the name.
Resolve(url) ==
    IF url.ip # <<>> THEN {url.ip} ELSE {<<93, 184, 216, 34>>, <<10, 0, 0, 5>>}

UrlRequest(url) ==
    [method |-> "POST", path |-> "/api/v1/convert/url-to-pdf", query |-> <<>>, client |-> "10.0.0.1",
     user_agent |-> "curl", files |-> <<>>, form |-> [DefaultForm EXCEPT !.url = url]]

\* url_to_pdf is awaiting its client: the request is in, no response yet.
Fetching == request.path = "/api/v1/convert/url-to-pdf" /\ response = NoResponse

\* The handler's answer on its way out through the middleware.
UrlAnswer(req, inner, rid, duration) ==
    /\ response' = [status |-> inner.status,
                    headers |-> CacheHeadersMiddleware(
                                    PrivacyLoggingMiddleware(req, inner, rid, duration)).headers,
                    detail |-> <<>>, document |-> NoDocument]
    /\ access_log' = PrivacyLoggingMiddleware(req, inner, rid, duration).lines
    /\ transform_calls' = inner.calls

\* api_url_to_pdf up to the first request of url_to_pdf: a URL that fails
\* _is_safe_url raises ValueError, answered 400; a URL that passes is fetched.
api_url_to_pdf(url) ==
    /\ MainThreadFree
    /\ request = NoRequest
    /\ response = NoResponse
    /\ request' = UrlRequest(url)
    /\ IF _is_safe_url(url)
       THEN /\ \E addr \in Resolve(url) : fetched' = <<[url |-> url, addr |-> addr]>>
            /\ UNCHANGED <<response, access_log, transform_calls>>
       ELSE /\ fetched' = <<>>
            /\ \E rid \in RequestIds : \E d \in Durations :
                 UrlAnswer(UrlRequest(url), JsonResponse(400, 0), rid, d)
    /\ UNCHANGED <<read_wait, transform_exc, transform_input, prev, trackerVars, convVars>>

\* `follow_redirects=True`: the server answers a redirect and the client
\* requests its target.
FollowRedirect(target) ==
    /\ Fetching
    /\ Len(fetched) <= MaxRedirects
    /\ target.scheme \in {"http", "https"}
    /\ \E addr \in Resolve(target) : fetched' = Append(fetched, [url |-> target, addr |-> addr])
    /\ read_wait' = 0
    /\ UNCHANGED <<request, response, access_log, transform_calls, transform_exc,
                   transform_input, prev, trackerVars, convVars>>

\* The fetch ends.  With a response that is not a redirect html_to_pdf
\* renders its text and the handler returns the document, named after the
\* netloc with its dots replaced by _; when raise_for_status or the client
\* raises, `except Exception` picks the status from the message.
UrlFetchEnds(status) ==
    /\ Fetching
    /\ LET url == request.form.url
           safe_domain ==
               IF url.ip # <<>>
               THEN <<ToString(url.ip[1]), "_", ToString(url.ip[2]), "_",
                      ToString(url.ip[3]), "_", ToString(url.ip[4])>>
               ELSE [i \in 1..Len(url.name) |->
                        IF url.name[i] = "." THEN "_" ELSE url.name[i]]
           inner == IF status = 200
                    THEN StreamingResponse(safe_domain \o <<".", "pdf">>, 1)
                    ELSE JsonResponse(status, 0)
       IN \E rid \in RequestIds : \E d \in Durations : UrlAnswer(request, inner, rid, d)
    /\ read_wait' = 0
    /\ UNCHANGED <<request, fetched, transform_exc, transform_input, prev,
                   trackerVars, convVars>>

NextUrl ==
    \/ \E url \in Urls : api_url_to_pdf(url)
    \/ \E target \in Urls : FollowRedirect(target)
    \/ \E status \in {200, 403, 404, 500, 504} : UrlFetchEnds(status)
    \/ ResponseSent

SpecUrl == InitHttp /\ [][NextUrl]_vars

\* Pairs of exchanges: the requests of two paths, each with every method,
\* query, client, user agent and a choice of uploads.
AuditUploads ==
    [filename : {<<"CONFIDENTIAL">>, <<"CONFIDENTIAL", ".", "pdf">>},
     content_type : {"application/pdf"},
     body : {Body(0, ""), Body(10, "%PDF-")}]

AuditRequests ==
    [method : Methods, path : {"/health"}, query : Queries, client : Clients,
     user_agent : UserAgents, files : {<<>>}, form : {DefaultForm}]
    \cup
    [method : Methods, path : {"/api/v1/pdf/rotate"}, query : Queries,
     client : Clients, user_agent : UserAgents,
     files : {<<u>> : u \in AuditUploads}, form : {DefaultForm}]

NextAudit ==
    \/ Serve(AuditRequests, {"none", "RuntimeError"})
    \/ ResponseSentRecorded

SpecAudit == InitHttp /\ [][NextAudit]_vars

\* The requests of the handlers that read options: a well-formed or an empty
\* document with each choice of the fields the handler reads.
FormsFor(path) ==
    CASE path = "/api/v1/pdf/rotate" ->
            {[DefaultForm EXCEPT !.pages = p, !.degrees = d] :
                p \in PagesFields, d \in {90, -90, 45}}
      [] path = "/api/v1/pdf/delete-pages" ->
            {[DefaultForm EXCEPT !.pages = p] : p \in PagesFields}
      [] path = "/api/v1/pdf/split" ->
            {[DefaultForm EXCEPT !.mode = "range", !.start = a, !.end = b] :
                a \in 0..(DocPages + 1), b \in 0..(DocPages + 1)}
            \cup {[DefaultForm EXCEPT !.mode = "every_n", !.n_pages = n] : n \in 0..DocPages}
            \cup {[DefaultForm EXCEPT !.mode = m, !.pages = p] :
                    m \in {"specific", "halves"}, p \in PagesFields}

OptionRequests ==
    UNION {[method : {"POST"}, path : {p}, query : {<<>>}, client : {"10.0.0.1"},
            user_agent : {"curl"}, files : {<<u>> : u \in AuditUploads},
            form : FormsFor(p)] :
           p \in {"/api/v1/pdf/split", "/api/v1/pdf/rotate", "/api/v1/pdf/delete-pages"}}

NextOptions ==
    \/ Serve(OptionRequests, {"none", "RuntimeError"})
    \/ ResponseSent

SpecOptions == InitHttp /\ [][NextOptions]_vars

\* Uploads around the size ceiling, of each type, name and content.
SizeRequests ==
    [method : {"POST"}, path : {"/api/v1/pdf/rotate", "/api/v1/convert/word-to-pdf"},
     query : {<<>>}, client : {"10.0.0.1"}, user_agent : {"curl"},
     files : {<<u>> : u \in
                [filename : Filenames, content_type : ContentTypes,
                 body : {Body(MAX_UPLOAD_SIZE_BYTES + d, h) : d \in -1..2, h \in Magics}]},
     form : {DefaultForm}]

NextSize ==
    \/ Serve(SizeRequests, {"none", "RuntimeError"})
    \/ ResponseSent

SpecSize == InitHttp /\ [][NextSize]_vars

\* The requests of the password handlers: a document that is not encrypted
\* or one that add_password has saved with a password, and each password.
Passwords == {"test123", "hunter2"}

PasswordRequests ==
    [method : Methods, path : {"/api/v1/pdf/password/add", "/api/v1/pdf/password/remove"},
     query : {<<>>}, client : {"10.0.0.1"}, user_agent : {"curl"},
     files : {<<[u EXCEPT !.body.lock = l]>> : u \in AuditUploads, l \in {""} \cup Passwords},
     form : {[DefaultForm EXCEPT !.password = p] : p \in Passwords}]

NextPassword ==
    \/ Serve(PasswordRequests, {"none", "RuntimeError", "PdfError"})
    \/ ResponseSent

SpecPassword == InitHttp /\ [][NextPassword]_vars

----------------------------------------------------------------------------
(* Specification of a worker: conversions and other requests on one loop *)

\* api_word_to_pdf is a coroutine of the worker's event loop and calls
\* office_to_pdf directly (convert.py:61); office_to_pdf calls the blocking
\* subprocess.run (conversion_service.py:58).  From the call to its return
\* the loop's only thread is inside office_to_pdf.
LoopInConversion == conv.pc # "none"

\* The event loop runs another request's handler, or writes out a response.
OtherRequestStep ==
    /\ ~LoopInConversion
    /\ \/ Serve(StaticRequests, {"none"})
       \/ ResponseSent

NextLoop ==
    \/ ConvStart("office_to_pdf")
    \/ ToolSpawn
    \/ ToolWritesOutput
    \/ \E rc \in {"rc0", "rc1"} : ToolExits(rc)
    \/ ToolTimesOut
    \/ RunReturns
    \/ ConvReturn
    \/ OtherRequestStep

SpecLoop == InitHttp /\ [][NextLoop]_vars

----------------------------------------------------------------------------
(* Specification of the requests that wait for an external call, with time *)

\* The timeout of the fetch, in the model's unit of time: the `timeout`
\* handed to httpx.AsyncClient (web_conversion_service.py:262), which httpx
\* applies to each connect, write and read of the exchange separately.
FetchTimeout == 2

\* The URLs submitted and redirected to while time is modelled.
FetchUrls == {Url("http", <<"example", ".", "com">>, <<>>), Url("ftp", <<"example", ".", "com">>, <<>>)}

\* Time passes while client.get awaits the next bytes of the response.
TimePasses ==
    /\ Fetching
    /\ read_wait < FetchTimeout
    /\ read_wait' = read_wait + 1
    /\ UNCHANGED <<request, response, access_log, transform_calls, transform_exc,
                   transform_input, fetched, prev, trackerVars, convVars>>

\* The web server sends some more bytes of its response, which is not yet
\* complete: the read returns and the next read starts its own timeout.
BytesArrive ==
    /\ Fetching
    /\ read_wait > 0
    /\ read_wait' = 0
    /\ UNCHANGED <<request, response, access_log, transform_calls, transform_exc,
                   transform_input, fetched, prev, trackerVars, convVars>>

\* A read has waited for the whole timeout: the client raises and
\* `except Exception` of api_url_to_pdf picks 504 or 500 from the message.
ReadTimesOut ==
    /\ read_wait = FetchTimeout
    /\ \E status \in {500, 504} : UrlFetchEnds(status)

NextWaits ==
    \/ request = NoRequest /\ ConvStart("office_to_pdf")
    \/ ToolSpawn
    \/ ToolWritesOutput
    \/ \E rc \in {"rc0", "rc1"} : ToolExits(rc)
    \/ ToolTimesOut
    \/ RunReturns
    \/ ConvReturn
    \/ ~LoopInConversion /\ \E url \in FetchUrls : api_url_to_pdf(url)
    \/ \E target \in FetchUrls : FollowRedirect(target)
    \/ TimePasses
    \/ BytesArrive
    \/ ReadTimesOut
    \/ \E status \in {200, 404, 500} : UrlFetchEnds(status)
    \/ ResponseSent

\* The worker keeps running the code it is in, the child process is killed
\* when subprocess.run's timeout is over, time passes, and a read that has
\* waited for the whole timeout raises.  Nothing obliges the tool to exit or
\* the web server to complete its response.
FairSpecWaits ==
    /\ InitHttp
    /\ [][NextWaits]_vars
    /\ WF_vars(ToolSpawn)
    /\ WF_vars(ToolTimesOut)
    /\ WF_vars(RunReturns)
    /\ WF_vars(ConvReturn)
    /\ WF_vars(TimePasses)
    /\ WF_vars(ReadTimesOut)

----------------------------------------------------------------------------
(* Claims about the shutdown path and the tracker *)

\* C5: for each termination event cleanup_temp_files runs exactly once,
\* counting the run of the signal handler and the runs of the atexit hooks.
C5_SweepExactlyOnce == phase = "TERMINATED" => shutdown_sweeps = 1

HasCleanupAfterSignal ==
    \E i \in 1..Len(log) : \E j \in 1..Len(log) :
        /\ i < j
        /\ log[i].event = "signal_received"
        /\ log[j].event = "cleanup"

\* When the handler reaches sys.exit its sweep has run, the live set is empty
\* and the last line logged is the count of what it removed.
HandlerSweptAndLogged ==
    (frame.fn = "_signal_handler" /\ frame.pc = "exit") =>
        /\ last_sweep.caller = "signal"
        /\ _active_temp_resources = {}
        /\ log[Len(log)] = CleanupLine(Cardinality(last_sweep.removed))

TerminatedBySignalClean ==
    (phase = "TERMINATED" /\ cause = "signal") =>
        /\ exit_code = 0
        /\ _active_temp_resources = {}
        /\ HasCleanupAfterSignal

\* C6: from RUNNING a signal leads to TERMINATED through SHUTTING_DOWN and
\* never back to RUNNING; the sweep runs and its count is logged before the
\* process exits, the live set is empty at exit and the exit code is 0.
C6_SignalShutdown ==
    /\ [][(phase = "RUNNING") => (phase' \in {"RUNNING", "SHUTTING_DOWN"})]_vars
    /\ [][(phase \in {"SHUTTING_DOWN", "TERMINATED"}) => ~(phase' = "RUNNING")]_vars
    /\ [](HandlerSweptAndLogged /\ TerminatedBySignalClean)
    /\ ((phase = "SHUTTING_DOWN" /\ cause = "signal") ~> (phase = "TERMINATED"))

C6_Witness ==
    /\ phase = "TERMINATED" /\ cause = "signal" /\ exit_code = 0
    /\ \E i \in 1..Len(log) : log[i].event = "cleanup" /\ log[i].resource_count = 2

\* C7: every completed sweep leaves in the live set no handle registered
\* before it started, and reports the number of handles it removed, whatever
\* the interleaving of request code and signal deliveries.
C7_SweepAtomic ==
    last_sweep.caller # "none" =>
        /\ last_sweep.before \cap last_sweep.after = {}
        /\ last_sweep.reported = Cardinality(last_sweep.removed)

C7_Witness ==
    /\ last_sweep.caller = "signal"
    /\ Cardinality(last_sweep.removed) = 2
    /\ signals = 2

----------------------------------------------------------------------------
(* Claims about the conversions *)

\* C8: whenever a scratch file of a transform exists in /tmp, its handle is
\* in the tracker's live set.
C8_ScratchFilesTracked == \A f \in tmp_files : f \in _active_temp_resources

\* C9: after a conversion ends by success, non-zero exit, missing output or
\* timeout, none of the files it created is left in /tmp, the child process
\* is gone, and a timeout is answered with 504.
C9_NoScratchLeft ==
    conv_result.outcome \in {"rc0", "rc1", "timeout"} =>
        /\ conv_result.created \cap tmp_files = {}
        /\ ~proc_running
        /\ (conv_result.outcome = "timeout" => conv_result.status = 504)

----------------------------------------------------------------------------
(* Claims about the HTTP exchanges *)

Parts(text) == {text[i] : i \in 1..Len(text)}

HasNoCacheHeaders(h) ==
    /\ {"cache-control", "pragma", "expires", "x-content-type-options"} \subseteq DOMAIN h
    /\ {"no-store", "no-cache", "must-revalidate", "private"} \subseteq Parts(h["cache-control"])
    /\ h["pragma"] = <<"no-cache">>
    /\ h["expires"] = <<"0">>
    /\ h["x-content-type-options"] = <<"nosniff">>

C2_FilenameNeverLeaks ==
    \A i \in 1..Len(request.files) :
        request.files[i].filename # <<>> =>
            /\ \A h \in DOMAIN response.headers :
                    ~Contains(request.files[i].filename, response.headers[h])
            /\ \A k \in 1..Len(access_log) :
                    ~Contains(request.files[i].filename, LineText(access_log[k]))

\* The request reached the body of the handler of its route.
HandlerEntered(req) ==
    /\ Route(req.path) # "none"
    /\ req.method = RouteMethod(Route(req.path))
    /\ Len(req.files) >= Arity(Route(req.path))

\* Some upload of the request is rejected by the validator of its handler.
UploadFailsValidation(req) ==
    \E i \in 1..Len(req.files) :
        /\ i <= Len(Validators(Route(req.path), req.files))
        /\ Validate(Validators(Route(req.path), req.files)[i], req.files[i]) # 0

\* C4: on a PDF endpoint, when an upload of the request fails validation the
\* transform is called zero times and the answer is the validation failure.
C4_NoTransformAfterFailedValidation ==
    ( /\ response # NoResponse
      /\ Route(request.path) \in PdfEndpoints
      /\ HandlerEntered(request)
      /\ UploadFailsValidation(request) )
    => (transform_calls = 0 /\ response.status \in {400, 413, 415})

C4_Witness ==
    /\ request.path = "/api/v1/pdf/compare"
    /\ request.method = "POST"
    /\ validate_pdf(request.files[1]) = 0
    /\ validate_pdf(request.files[2]) = 400
    /\ response.status = 400
    /\ transform_calls = 0

BothAnswered == prev.status # 0 /\ response # NoResponse

\* Two requests that differ only in what must not reach the log: body, query,
\* client address, user agent, file name, file size.
DifferOnlyInUnloggedInputs(a, b) == a.method = b.method /\ a.path = b.path

SameApartFromIdAndDuration(l1, l2) ==
    [l1 EXCEPT !.request_id = "", !.duration_ms = 0]
        = [l2 EXCEPT !.request_id = "", !.duration_ms = 0]

\* C10 as stated: two requests that differ only in body, query, client
\* address, user agent, file name or file size produce audit lines that are
\* identical apart from correlation id and duration.
C10_AuditLineIndependentOfInputs ==
    ( /\ BothAnswered
      /\ DifferOnlyInUnloggedInputs(prev.request, request)
      /\ prev.exc = transform_exc )
    => SameApartFromIdAndDuration(prev.lines[1], access_log[1])

\* C10, amended: the audit line is made of the correlation id, the method,
\* the path without query string, the status code and the duration, and
\* nothing else; two requests that differ only in body, query, client
\* address, user agent, file name or file size and are answered with the
\* same status produce lines identical apart from correlation id and
\* duration.
C10_AuditLineOfFiveFields ==
    /\ response # NoResponse =>
            access_log = <<AuditLine(access_log[1].request_id, request.method,
                                     <<request.path>>, response.status,
                                     access_log[1].duration_ms)>>
    /\ ( /\ BothAnswered
         /\ DifferOnlyInUnloggedInputs(prev.request, request)
         /\ prev.status = response.status )
       => SameApartFromIdAndDuration(prev.lines[1], access_log[1])

C10_Witness ==
    /\ BothAnswered
    /\ DifferOnlyInUnloggedInputs(prev.request, request)
    /\ prev.status = 200 /\ response.status = 200
    /\ prev.request.query # request.query
    /\ prev.request.client # request.client
    /\ prev.request.user_agent # request.user_agent
    /\ prev.request.files # request.files
    /\ prev.lines[1].request_id # access_log[1].request_id
    /\ prev.lines[1].duration_ms # access_log[1].duration_ms
    /\ SameApartFromIdAndDuration(prev.lines[1], access_log[1])

----------------------------------------------------------------------------
(* Claims about the request logger and the error responses *)

\* C11: also when the handler raises, the request logger emits exactly one
\* audit line for the request, carrying the status the client receives.
C11_OneAuditLinePerResponse ==
    response # NoResponse =>
        /\ Len(access_log) = 1
        /\ access_log[1].status = response.status

\* The request with its first upload renamed.
Renamed(req, name) == [req EXCEPT !.files[1].filename = name]

\* C12: the name in Content-Disposition is generated and never taken from
\* the client: the same request with its upload under any other name, when
\* it is answered with a download too, gets the same Content-Disposition.
C12_DispositionIndependentOfName ==
    ( /\ response.status = 200
      /\ "content-disposition" \in DOMAIN response.headers )
    => \A name \in Filenames :
          Router(Renamed(request, name), transform_exc).status = 200 =>
              Router(Renamed(request, name), transform_exc).headers["content-disposition"]
                  = response.headers["content-disposition"]

\* The outcome of the PDF validation as the specification words it: the
\* checks in the order type, size, emptiness, magic bytes, the first failure
\* decides.
TypeRejected(u) ==
    u.content_type # "application/pdf" /\ ~EndsWith(LowerName(u.filename), <<".", "pdf">>)
ExpectedPdfStatus(u) ==
    CASE TypeRejected(u) -> 415
      [] ~TypeRejected(u) /\ u.body.size > MAX_UPLOAD_SIZE_BYTES -> 413
      [] ~TypeRejected(u) /\ u.body.size = 0 -> 400
      [] ~TypeRejected(u) /\ u.body.size \in 1..MAX_UPLOAD_SIZE_BYTES
            /\ u.body.head # "%PDF-" -> 400
      [] OTHER -> 0

\* The handler of a PDF endpoint ran its first validate_pdf call.
FirstPdfValidated(req) ==
    /\ Route(req.path) \in PdfEndpoints
    /\ HandlerEntered(req)
    /\ (Route(req.path) = "api_merge_pdfs" => Len(req.files) >= 2)

\* C13: validate_pdf answers 415, 413, 400, 400 for the first failing check
\* in the order type, size, emptiness, magic bytes, and the endpoint passes
\* that status to the client; a payload that passes is handed on unchanged.
C13_ValidatePdfOrder ==
    (response # NoResponse /\ FirstPdfValidated(request)) =>
        /\ ExpectedPdfStatus(request.files[1]) # 0 =>
                /\ response.status = ExpectedPdfStatus(request.files[1])
                /\ transform_input = <<>>
        /\ (ExpectedPdfStatus(request.files[1]) = 0
                /\ Route(request.path) = "api_rotate_pages") =>
                /\ response.status \in {200, 500}
                /\ transform_input = <<request.files[1].body>>

\* A wrong type that is also too large is answered 415, not 413.
C13_Witness ==
    /\ response.status = 415
    /\ request.path = "/api/v1/pdf/rotate"
    /\ request.method = "POST"
    /\ Len(request.files) = 1
    /\ request.files[1].body.size > MAX_UPLOAD_SIZE_BYTES

\* The bytes a payload of each kind has to start with.
ExpectedMagics(kind) ==
    CASE kind = "pdf" -> {"%PDF-"}
      [] kind = "image" -> {"PNG"}
      [] kind = "docx" -> {"PK"}
      [] kind = "rtf_content" -> {"{\\rtf"}

\* The declared type, or failing that the extension, is one of the kind.
TypeAccepted(kind, u) ==
    CASE kind = "pdf" -> ~TypeRejected(u)
      [] kind = "image" ->
            \/ u.content_type \in ALLOWED_IMAGE_TYPES
            \/ LowerName(PathSuffix(u.filename)) \in IMAGE_EXTENSIONS
      [] kind = "docx" ->
            \/ u.content_type \in WORD_TYPES
            \/ EndsWith(LowerName(u.filename), <<".", "docx">>)
      [] kind = "rtf_content" ->
            \/ u.content_type \in {"application/rtf", "text/rtf"}
            \/ EndsWith(LowerName(u.filename), <<".", "rtf">>)

PassesFourChecks(kind, u) ==
    /\ TypeAccepted(kind, u)
    /\ u.body.size <= MAX_UPLOAD_SIZE_BYTES
    /\ u.body.size > 0
    /\ u.body.head \in ExpectedMagics(kind)

\* C14: when the transform is invoked, every upload of the request has
\* passed the type, size, emptiness and magic-byte checks of its kind.
C14_FourChecksBeforeTransform ==
    transform_calls > 0 =>
        \A i \in 1..Len(request.files) :
            PassesFourChecks(Validators(Route(request.path), request.files)[i],
                             request.files[i])


----------------------------------------------------------------------------
(* Claims about the options of a request *)

\* The enum, range and shape checks the options of a handler are subject to.
PagesInRange(pages) ==
    /\ pages.kind = "list"
    /\ \A i \in 1..Len(pages.items) : pages.items[i] \in 1..DocPages

WellFormedOptions(route, form) ==
    CASE route = "api_rotate_pages" ->
            /\ form.degrees \in {90, 180, 270, -90, -180, -270}
            /\ (form.pages.kind \in {"absent", "all"} \/ PagesInRange(form.pages))
      [] route = "api_delete_pages" -> PagesInRange(form.pages)
      [] route = "api_split_pdf" ->
            /\ form.mode \in {"range", "every_n", "specific"}
            /\ form.mode = "range" => (form.start \in 1..DocPages /\ form.end \in 1..DocPages)
            /\ form.mode = "every_n" => form.n_pages >= 1
            /\ form.mode = "specific" => PagesInRange(form.pages)
      [] OTHER -> TRUE

\* C15: a transform function is called only after every check of the
\* request's options has passed; a request with a malformed option never
\* invokes the transform.
C15_OnlyValidatedOptionsReachTransform ==
    transform_calls > 0 => WellFormedOptions(Route(request.path), request.form)

\* The request reached its handler and its upload passed validate_pdf.
OptionsRead(req) ==
    /\ Route(req.path) \in {"api_split_pdf", "api_rotate_pages", "api_delete_pages"}
    /\ req.method = "POST"
    /\ Len(req.files) = 1
    /\ ExpectedPdfStatus(req.files[1]) = 0
    /\ ~ (Route(req.path) = "api_delete_pages" /\ req.form.pages.kind = "absent")

\* An operation-specific option that fails validation: an unknown split
\* mode, a pages field that is not valid JSON, a rotation outside the set.
OptionFailsValidation(route, form) ==
    \/ route = "api_split_pdf" /\ form.mode \notin {"range", "every_n", "specific"}
    \/ form.pages.kind = "malformed"
    \/ route = "api_rotate_pages"
        /\ form.degrees \notin {90, 180, 270, -90, -180, -270}

\* C16: an operation-specific option that fails validation yields a response
\* with status 400.
C16_BadOptionIs400 ==
    ( /\ response # NoResponse
      /\ OptionsRead(request)
      /\ OptionFailsValidation(Route(request.path), request.form) )
    => response.status = 400

\* A page number of the request is below 1 or above the document's page
\* count, in a request whose other options are valid.
OutOfRange(n) == n < 1 \/ n > DocPages

HasPageOutOfRange(route, form) ==
    /\ ~ OptionFailsValidation(route, form)
    /\ \/ /\ route \in {"api_rotate_pages", "api_delete_pages"}
          /\ form.pages.kind = "list"
          /\ \E i \in 1..Len(form.pages.items) : OutOfRange(form.pages.items[i])
       \/ /\ route = "api_split_pdf"
          /\ form.mode = "range"
          /\ (OutOfRange(form.start) \/ OutOfRange(form.end))
       \/ /\ route = "api_split_pdf"
          /\ form.mode = "specific"
          /\ form.pages.kind = "list"
          /\ \E i \in 1..Len(form.pages.items) : OutOfRange(form.pages.items[i])

\* C17: on an endpoint that takes page numbers, a page number below 1 or
\* above the page count of the document yields a response with status 400.
C17_PageOutOfRangeIs400 ==
    ( /\ response # NoResponse
      /\ OptionsRead(request)
      /\ transform_exc = "none"
      /\ HasPageOutOfRange(Route(request.path), request.form) )
    => response.status = 400

\* The operation, with valid options and pages in range, would produce a
\* result of zero pages or zero items.
WouldBeEmpty(route, form) ==
    /\ ~ OptionFailsValidation(route, form)
    /\ ~ HasPageOutOfRange(route, form)
    /\ \/ /\ route = "api_delete_pages"
          /\ form.pages.kind = "list"
          /\ {form.pages.items[i] : i \in 1..Len(form.pages.items)} = 1..DocPages
       \/ /\ route = "api_split_pdf"
          /\ form.mode = "range"
          /\ form.start > form.end
       \/ /\ route = "api_split_pdf"
          /\ form.mode = "specific"
          /\ form.pages = Pages("list", <<>>)

\* C18: an operation whose result would contain zero pages or zero items is
\* rejected with status 400.
C18_EmptyResultIs400 ==
    ( /\ response # NoResponse
      /\ OptionsRead(request)
      /\ transform_exc = "none"
      /\ WouldBeEmpty(Route(request.path), request.form) )
    => response.status = 400

----------------------------------------------------------------------------
(* Claims about unrecognised exceptions *)

\* C19: when a handler meets an exception it does not recognise, the client
\* receives status 500 with a detail that is a fixed text: it is the same
\* whatever the message of the exception.
C19_DetailIndependentOfMessage ==
    ( /\ response # NoResponse
      /\ transform_exc = "RuntimeError"
      /\ transform_calls > 0 )
    => /\ response.status = 500
       /\ \A msg \in Messages : Detail(request, transform_exc, msg) = response.detail

----------------------------------------------------------------------------
(* Claims about url-to-pdf *)

\* C20: every URL url-to-pdf fetches while it serves a request, the
\* submitted one and every redirect target it follows, has passed the
\* safe-URL check, and no request goes to localhost or to a loopback,
\* private, link-local, multicast or reserved address.
C20_OnlySafeUrlsFetched ==
    \A i \in 1..Len(fetched) :
        /\ _is_safe_url(fetched[i].url)
        /\ ~ InternalAddress(fetched[i].addr)

----------------------------------------------------------------------------
(* Claims about the password handlers *)

\* A remove request answered by its handler, whose document is a PDF that
\* add_password protected with p.
RemovesProtection(req, p) ==
    /\ Route(req.path) = "api_remove_password"
    /\ req.method = "POST"
    /\ ExpectedPdfStatus(req.files[1]) = 0
    /\ req.files[1].body.lock = p
    /\ p # ""

----------------------------------------------------------------------------
(* Claims about the sweep and the live set *)

\* C23: the sweep removes every handle from the live set and returns the
\* number of handles it swept: n on a live set of n handles, 0 when it is
\* called again on the emptied set.
C23_SweepReturnsCount ==
    last_sweep.caller # "none"
        => /\ last_sweep.after = {}
           /\ last_sweep.returned = <<Cardinality(last_sweep.before)>>

\* C24: registering a handle that is already in the live set leaves the
\* membership as one registration left it; unregistering a handle that is
\* not in the live set leaves the set unchanged; neither operation changes
\* the membership of any other handle.
C24_RegisterUnregisterIdempotent ==
    \A h \in Handles :
        /\ h \in _active_temp_resources
            => SetAdd(_active_temp_resources, h) = _active_temp_resources
        /\ SetAdd(SetAdd(_active_temp_resources, h), h) = SetAdd(_active_temp_resources, h)
        /\ h \notin _active_temp_resources
            => SetDiscard(_active_temp_resources, h) = _active_temp_resources
        /\ \A g \in Handles \ {h} :
            /\ (g \in SetAdd(_active_temp_resources, h)) = (g \in _active_temp_resources)
            /\ (g \in SetDiscard(_active_temp_resources, h)) = (g \in _active_temp_resources)

\* A handle has been registered and another one is not in the live set.
C24_Witness ==
    /\ ops > 0
    /\ \E h \in Handles : h \in _active_temp_resources
    /\ \E g \in Handles : g \notin _active_temp_resources

----------------------------------------------------------------------------
(* Claims about the correlation id *)

\* C25: every response carries an X-Request-ID header whose value is the
\* correlation id of the audit line of the same request, and the status of
\* that line is the status of the response delivered to the client.
C25_RequestIdMatchesAuditLine ==
    response # NoResponse =>
        /\ "x-request-id" \in DOMAIN response.headers
        /\ \E i \in 1..Len(access_log) :
            /\ response.headers["x-request-id"] = <<access_log[i].request_id>>
            /\ access_log[i].status = response.status

----------------------------------------------------------------------------
(* Claims about the size ceiling *)

\* The request reached a handler that validates its one upload, and the
\* upload is of a type the validator accepts.
AcceptedTypeUpload(req) ==
    /\ req.method = "POST"
    /\ Len(req.files) = 1
    /\ Route(req.path) \in {"api_rotate_pages", "api_word_to_pdf"}
    /\ TypeAccepted(Validators(Route(req.path), req.files)[1], req.files[1])

----------------------------------------------------------------------------
(* Claims about merge *)

\* The response is that of the merge route to a POST with n files.
MergeOf(n) ==
    /\ response # NoResponse
    /\ Route(request.path) = "api_merge_pdfs"
    /\ request.method = "POST"
    /\ Len(request.files) = n

\* The request was rejected with 400 and a detail mentioning 'at least 2',
\* and no file was validated or merged.
RejectedForTooFewFiles ==
    /\ response.status = 400
    /\ Contains(<<"at least 2">>, LowerName(response.detail))
    /\ transform_calls = 0
    /\ transform_input = <<>>

\* C27 as stated: a merge request with fewer than 2 files is rejected with
\* status 400 and a detail mentioning 'at least 2', before any uploaded file
\* is read, validated or merged.
C27_MergeFewerThanTwoIs400 ==
    \A n \in 0..1 : MergeOf(n) => RejectedForTooFewFiles

\* C27 as amended: a merge request with exactly one file is rejected so; a
\* merge request without any file is rejected with 422 before the handler.
C27_MergeOneFileIs400 ==
    /\ MergeOf(1) => RejectedForTooFewFiles
    /\ MergeOf(0) => (response.status = 422 /\ transform_calls = 0)

C27_Witness == MergeOf(1) /\ response.status = 400 /\ request.files[1].body.size = 0

----------------------------------------------------------------------------
(* Claims about scheduling *)

\* A request is waiting for its libreoffice child process to finish.
WaitingForSubprocess == conv.pc = "wait" /\ proc_running

\* C28: while one request waits for an external conversion subprocess, other
\* requests of the same worker can still be accepted and make progress.
C28_OthersProgressDuringConversion ==
    WaitingForSubprocess => ENABLED OtherRequestStep

\* C29: every request to a subprocess-backed conversion endpoint or to
\* url-to-pdf eventually produces a response: the external call always ends
\* by success, failure or timeout.
C29_EveryRequestAnswered ==
    /\ LoopInConversion ~> ~LoopInConversion
    /\ Fetching ~> ~Fetching

----------------------------------------------------------------------------
(* Claims about delete_pages *)

\* delete_pages was called with a list of pages that are all in range.
DeletesInRange(req) ==
    /\ OptionsRead(req)
    /\ Route(req.path) = "api_delete_pages"
    /\ PagesInRange(req.form.pages)

\* The distinct pages of a request.
Distinct(items) == {items[i] : i \in 1..Len(items)}

\* C30: delete_pages raises EmptyResultError exactly when the distinct
\* requested pages cover every page of the document; for any other in-range
\* request, one that lists a page twice included, it returns a document of
\* (page count minus number of distinct requested pages) pages, the
\* surviving pages in their original order.
C30_EmptyExactlyWhenAllPagesRequested ==
    ( /\ response # NoResponse
      /\ transform_exc = "none"
      /\ DeletesInRange(request) )
    => LET items == request.form.pages.items
           left == PagesAfterDelete(items)
       IN IF Distinct(items) = 1..DocPages
          THEN response.status = 400
          ELSE /\ response.status = 200
               /\ Len(left) = DocPages - Cardinality(Distinct(items))
               /\ \A i \in 1..Len(left), j \in 1..Len(left) : i < j => left[i] < left[j]

====
